---- MODULE Spec2Model ----
(***************************************************************************)
(* Model of src/finite_element.py: the FiniteElement element kernel.       *)
(*                                                                         *)
(* A FiniteElement object holds one attribute, problem_type.  Its six      *)
(* methods dispatch on that string and evaluate closed-form formulas in    *)
(* double-precision floating point.  The model keeps:                      *)
(*   - problem_type, the attribute;                                        *)
(*   - heap, the Python objects the caller can reach (the arrays it        *)
(*     passes in and the arrays and lists the methods return);             *)
(*   - call, the invocation in progress: method, arguments, outcome;       *)
(*   - nums, the numbers the caller draws its arguments from.              *)
(*                                                                         *)
(* Floating point is modelled as binary floating point with Precision      *)
(* significant bits and round-to-nearest-even on every operation, exactly  *)
(* as IEEE-754 double does with 53 bits; the exponent is unbounded, so     *)
(* overflow to inf and underflow are outside the model.  A number is the   *)
(* rational <<n, d>> in lowest terms, d > 0.  Arguments are built-in       *)
(* Python floats, whose division by zero raises ZeroDivisionError.         *)
(***************************************************************************)
EXTENDS Integers, Sequences, FiniteSets, TLC

VARIABLES problem_type, heap, call, nums

vars == <<problem_type, heap, call, nums>>

(***************************************************************************)
(* Bounds of the model.                                                    *)
(***************************************************************************)
\* significant bits of the floating-point format
Precision == 3
\* arguments range over n and n/2 for |n| <= MaxNum
MaxNum == 3
\* element indices range over 0 .. MaxElem
MaxElem == 3
\* load sequences have 1 .. MaxLoads entries
MaxLoads == 2

(***************************************************************************)
(* Rational numbers and floating-point rounding.                           *)
(***************************************************************************)
Abs(n) == IF n < 0 THEN -n ELSE n

RECURSIVE GCD(_, _)
GCD(a, b) == IF b = 0 THEN a ELSE GCD(b, a % b)

\* the rational n/d (d # 0) in lowest terms with a positive denominator
Rat(n, d) ==
    LET g == GCD(Abs(n), Abs(d))
        s == IF d < 0 THEN -1 ELSE 1
    IN  <<s * (n \div g), s * (d \div g)>>

RECURSIVE Pow2(_)
Pow2(k) == IF k = 0 THEN 1 ELSE 2 * Pow2(k - 1)

RAdd(x, y) == Rat(x[1] * y[2] + y[1] * x[2], x[2] * y[2])
RSub(x, y) == Rat(x[1] * y[2] - y[1] * x[2], x[2] * y[2])
RMul(x, y) == Rat(x[1] * y[1], x[2] * y[2])
RDiv(x, y) == Rat(x[1] * y[2], x[2] * y[1])

\* scale a/d by powers of two until 2^(Precision-1) <= a/d < 2^Precision;
\* the original value is (a/d) * 2^k
RECURSIVE Normalize(_, _, _)
Normalize(a, d, k) ==
    IF a < Pow2(Precision - 1) * d THEN Normalize(2 * a, d, k - 1)
    ELSE IF a >= Pow2(Precision) * d THEN Normalize(a, 2 * d, k + 1)
    ELSE <<a, d, k>>

\* round-to-nearest, ties to even, to Precision significant bits
Round(q) ==
    IF q[1] = 0 THEN <<0, 1>>
    ELSE LET s  == IF q[1] < 0 THEN -1 ELSE 1
             t  == Normalize(Abs(q[1]), q[2], 0)
             m0 == t[1] \div t[2]
             r  == t[1] % t[2]
             m  == IF 2 * r > t[2] \/ (2 * r = t[2] /\ m0 % 2 = 1)
                   THEN m0 + 1 ELSE m0
         IN  IF t[3] >= 0 THEN <<s * m * Pow2(t[3]), 1>>
             ELSE Rat(s * m, Pow2(-t[3]))

\* the float literal of a small integer
F(n) == <<n, 1>>
Zero == F(0)

\* Python / NumPy float operators: the exact result, rounded
FAdd(x, y) == Round(RAdd(x, y))
FSub(x, y) == Round(RSub(x, y))
FMul(x, y) == Round(RMul(x, y))
FDiv(x, y) == Round(RDiv(x, y))
FNeg(x) == <<-x[1], x[2]>>

RECURSIVE RPow(_, _)
RPow(x, k) == IF k = 0 THEN F(1) ELSE RMul(x, RPow(x, k - 1))
FPow(x, k) == Round(RPow(x, k))

\* None, the default of every keyword argument
None == <<0, 0>>

Half == <<1, 2>>

(***************************************************************************)
(* Python objects and call outcomes.                                       *)
(***************************************************************************)
\* an array, list or scalar: row-major data with its shape
Obj(type, dtype, shape, data) ==
    [type |-> type, dtype |-> dtype, shape |-> shape, data |-> data]

NdArray(shape, data) == Obj("ndarray", "float64", shape, data)
Scalar(x) == Obj("scalar", "float64", <<>>, <<x>>)

Return(obj) == [kind |-> "return", value |-> obj]
Raise(exc) == [kind |-> "raise", exc |-> exc]

\* raise Exception('Invalid choice of element type')
InvalidElementType == "InvalidElementType"
ZeroDivisionError == "ZeroDivisionError"
IndexError == "IndexError"

\* scalar * ndarray, elementwise
Scale(s, data) == [i \in DOMAIN data |-> FMul(s, data[i])]

(***************************************************************************)
(* The methods of FiniteElement, as functions of self.problem_type and     *)
(* the arguments.  Python evaluates the left operand of * first, so a      *)
(* zero divisor raises before any array is built.                          *)
(***************************************************************************)
\* np.array([[1., -1.], [-1., 1.]])
BarStiffness == <<F(1), F(-1), F(-1), F(1)>>

\* a slip in the literal: 4*le**2 and 2*le**2 exchanged
BeamStiffness_Exchanged(le) ==
    LET p6  == FMul(F(6), le)
        m6  == FMul(F(-6), le)
        sq4 == FMul(F(4), FPow(le, 2))
        sq2 == FMul(F(2), FPow(le, 2))
    IN  << F(12), p6,  F(-12), p6,
           p6,    sq2, m6,     sq4,
           F(-12), m6, F(12),  m6,
           p6,    sq4, m6,     sq2 >>

\* np.array([12,6*le,-12,6*le,6*le,4*le**2,-6*le,2*le**2,
\*           -12,-6*le,12,-6*le,6*le,2*le**2,-6*le,4*le**2])
BeamStiffness(le) ==
    LET p6  == FMul(F(6), le)
        m6  == FMul(F(-6), le)
        sq4 == FMul(F(4), FPow(le, 2))
        sq2 == FMul(F(2), FPow(le, 2))
    IN  << F(12), p6,  F(-12), p6,
           p6,    sq4, m6,     sq2,
           F(-12), m6, F(12),  m6,
           p6,    sq2, m6,     sq4 >>

\* a slip in the exponent: EIe/(le**2)
get_Ke_SquaredLength(self, Ae, Ee, le, EIe) ==
    IF self = "Elasticity" THEN
        IF le = Zero THEN Raise(ZeroDivisionError)
        ELSE Return(NdArray(<<2, 2>>,
                            Scale(FDiv(FMul(Ae, Ee), le), BarStiffness)))
    ELSE IF self = "EB_beam" THEN
        IF FPow(le, 2) = Zero THEN Raise(ZeroDivisionError)
        ELSE Return(NdArray(<<16>>,
                            Scale(FDiv(EIe, FPow(le, 2)), BeamStiffness(le))))
    ELSE Raise(InvalidElementType)

get_Ke(self, Ae, Ee, le, EIe) ==
    IF self = "Elasticity" THEN
        IF le = Zero THEN Raise(ZeroDivisionError)
        ELSE Return(NdArray(<<2, 2>>,
                            Scale(FDiv(FMul(Ae, Ee), le), BarStiffness)))
    ELSE IF self = "EB_beam" THEN
        IF FPow(le, 3) = Zero THEN Raise(ZeroDivisionError)
        ELSE Return(NdArray(<<16>>,
                            Scale(FDiv(EIe, FPow(le, 3)), BeamStiffness(le))))
    ELSE Raise(InvalidElementType)

\* a slip in the matrix: the lumped form [[3., 0.], [0., 3.]]
BodyForceDot_Lumped(b1, b2) ==
    << FAdd(FMul(F(3), b1), FMul(F(0), b2)),
       FAdd(FMul(F(0), b1), FMul(F(3), b2)) >>

\* np.array([[2., 1.], [1., 2.]]).dot(np.array([[b1], [b2]]))
BodyForceDot(b1, b2) ==
    << FAdd(FMul(F(2), b1), FMul(F(1), b2)),
       FAdd(FMul(F(1), b1), FMul(F(2), b2)) >>

\* (f*le/2.0)*np.array([1.0,le/6.0,1.0,-le/6.0])
BeamLoad(f, le) ==
    Scale(FDiv(FMul(f, le), F(2)),
          << F(1), FDiv(le, F(6)), F(1), FDiv(FNeg(le), F(6)) >>)

get_fe_omega(self, le, b1, b2, fe) ==
    IF self = "Elasticity" THEN
        Return(NdArray(<<2, 1>>, Scale(FDiv(le, F(6)), BodyForceDot(b1, b2))))
    ELSE IF self = "EB_beam" THEN
        Return(NdArray(<<4>>, BeamLoad(fe, le)))
    ELSE Raise(InvalidElementType)

\* fe[node]: Python indexing, a negative index counts from the end
ValidIndex(seq, node) == -Len(seq) <= node /\ node < Len(seq)
PyIndex(seq, node) ==
    IF node >= 0 THEN seq[node + 1] ELSE seq[Len(seq) + node + 1]

\* a slip in the index: fe[0] whatever the node
get_dynamic_fe_omega_FirstLoad(self, le, b1, b2, fe, node) ==
    IF self = "EB_beam" THEN
        IF ~ValidIndex(fe, node) THEN Raise(IndexError)
        ELSE Return(NdArray(<<4>>, BeamLoad(PyIndex(fe, 0), le)))
    ELSE Raise(InvalidElementType)

get_dynamic_fe_omega(self, le, b1, b2, fe, node) ==
    IF self = "EB_beam" THEN
        IF ~ValidIndex(fe, node) THEN Raise(IndexError)
        ELSE Return(NdArray(<<4>>, BeamLoad(PyIndex(fe, node), le)))
    ELSE Raise(InvalidElementType)

\* a slip in the sign: 0.5*(a+b)+0.5*(a-b)*f
get_gauss_quadrature_index_Reversed(self, f, a, b) ==
    Return(Scalar(FAdd(FMul(Half, FAdd(a, b)),
                       FMul(FMul(Half, FSub(a, b)), f))))

get_gauss_quadrature_index(self, f, a, b) ==
    Return(Scalar(FAdd(FMul(Half, FAdd(a, b)),
                       FMul(FMul(Half, FSub(b, a)), f))))

\* a slip in the loops: ii and jj exchanged
DofTable_Exchanged(e) ==
    LET row0 == [k \in 1..16 |-> LET jj == (k - 1) % 4 IN e * 2 + jj]
        row1 == [k \in 1..16 |-> LET ii == (k - 1) \div 4 IN e * 2 + ii]
    IN  row0 \o row1

\* exy after the two loop nests: exy[0,ii*4+jj] = e*2+ii, exy[1,ii*4+jj] = e*2+jj
DofTable(e) ==
    LET row0 == [k \in 1..16 |-> LET ii == (k - 1) \div 4 IN e * 2 + ii]
        row1 == [k \in 1..16 |-> LET jj == (k - 1) % 4 IN e * 2 + jj]
    IN  row0 \o row1

\* a slip in the base: one-based DOF numbers
get_dof_index_OneBased(self, e) ==
    IF self = "Elasticity" THEN
        Return(Obj("list", "int", <<2>>, <<e + 1, e + 2>>))
    ELSE IF self = "EB_beam" THEN
        Return(Obj("ndarray", "int", <<2, 16>>, DofTable(e)))
    ELSE Raise(InvalidElementType)

get_dof_index(self, e) ==
    IF self = "Elasticity" THEN
        Return(Obj("list", "int", <<2>>, <<e, e + 1>>))
    ELSE IF self = "EB_beam" THEN
        Return(Obj("ndarray", "int", <<2, 16>>, DofTable(e)))
    ELSE Raise(InvalidElementType)

\* a slip in the dispatch: the tag is never tested
get_strain_e_AnyTag(self, le, de) ==
    IF le = Zero THEN Raise(ZeroDivisionError)
    ELSE Return(Scalar(FMul(FDiv(F(1), le),
                            FAdd(FMul(F(-1), de[1]), FMul(F(1), de[2])))))

\* added validation: a zero length is answered with a zero strain
get_strain_e_ZeroGuard(self, le, de) ==
    IF self = "Elasticity" THEN
        IF le = Zero THEN Return(Scalar(Zero))
        ELSE Return(Scalar(FMul(FDiv(F(1), le),
                                FAdd(FMul(F(-1), de[1]), FMul(F(1), de[2])))))
    ELSE Raise(InvalidElementType)

get_strain_e(self, le, de) ==
    IF self = "Elasticity" THEN
        IF le = Zero THEN Raise(ZeroDivisionError)
        ELSE Return(Scalar(FMul(FDiv(F(1), le),
                                FAdd(FMul(F(-1), de[1]), FMul(F(1), de[2])))))
    ELSE Raise(InvalidElementType)

(***************************************************************************)
(* The caller: construction, the arguments it passes, the object store.    *)
(***************************************************************************)
\* __init__ stores any string; one unrecognized tag stands for all of them
Tags == {"Elasticity", "EB_beam", "Plate"}

\* the floats n and n/2, |n| <= MaxNum
Floats == {Rat(n, d) : n \in -MaxNum..MaxNum, d \in {1, 2}}
\* a small stock of numbers, for the runs in which the caller keeps results
FewFloats == {F(1), Half}

Elems == 0..MaxElem
\* per-node loads: the whole numbers of nums in -1 .. 1
Loads == {x \in nums : x[2] = 1 /\ Abs(x[1]) <= 1}
LoadSeqs == UNION {[1..n -> Loads] : n \in 1..MaxLoads}
Nodes == (-MaxLoads - 1)..MaxLoads
\* what the caller may pass for a parameter the beam branch never reads
Ignored == {None, F(1)}

\* the caller passes the parameters of its element family; with an
\* unrecognized tag it may pass either family's
Family(f) == problem_type = f \/ problem_type \notin {"Elasticity", "EB_beam"}

KeArgs ==
    {[Ae |-> a, Ee |-> b, le |-> l, EIe |-> None] :
        a \in {x \in nums : Family("Elasticity")}, b \in nums, l \in nums}
    \cup {[Ae |-> None, Ee |-> None, le |-> l, EIe |-> x] :
        l \in {y \in nums : Family("EB_beam")}, x \in nums}

FeArgs ==
    {[le |-> l, b1 |-> a, b2 |-> b, fe |-> None] :
        l \in {x \in nums : Family("Elasticity")}, a \in nums, b \in nums}
    \cup {[le |-> l, b1 |-> None, b2 |-> None, fe |-> x] :
        l \in {y \in nums : Family("EB_beam")}, x \in nums}

NoCall == [op |-> "none"]
Idle == call.op = "none"

\* a shared buffer: the object is written over the oldest live one
Alloc_Reuse(h, obj) ==
    IF Len(h) = 0 THEN [heap |-> Append(h, obj), ref |-> Len(h) + 1]
    ELSE [heap |-> [h EXCEPT ![1] = obj], ref |-> 1]

\* a new object at a new address
Alloc(h, obj) == [heap |-> Append(h, obj), ref |-> Len(h) + 1]

\* the call returns a reference to a new object, or raises
Deliver(op, args, h, argref, out) ==
    IF out.kind = "raise"
    THEN /\ heap' = h
         /\ call' = [op |-> op, args |-> args, argref |-> argref,
                     base |-> Len(heap), kind |-> "raise", exc |-> out.exc,
                     ref |-> 0]
    ELSE LET al == Alloc(h, out.value)
         IN  /\ heap' = al.heap
             /\ call' = [op |-> op, args |-> args, argref |-> argref,
                         base |-> Len(heap), kind |-> "return", exc |-> "",
                         ref |-> al.ref]

Call_get_Ke ==
    /\ Idle
    /\ \E a \in KeArgs :
         Deliver("get_Ke", a, heap, 0,
                 get_Ke(problem_type, a.Ae, a.Ee, a.le, a.EIe))
    /\ UNCHANGED <<problem_type, nums>>

Call_get_fe_omega ==
    /\ Idle
    /\ \E a \in FeArgs :
         Deliver("get_fe_omega", a, heap, 0,
                 get_fe_omega(problem_type, a.le, a.b1, a.b2, a.fe))
    /\ UNCHANGED <<problem_type, nums>>

\* the caller builds the load list fe and passes a reference to it
Call_get_dynamic_fe_omega ==
    /\ Idle
    /\ \E l \in nums, a \in Ignored, b \in Ignored, f \in LoadSeqs, n \in Nodes :
         LET mine == Alloc(heap, Obj("list", "float64", <<Len(f)>>, f))
             args == [le |-> l, b1 |-> a, b2 |-> b, fe |-> f, node |-> n]
         IN  Deliver("get_dynamic_fe_omega", args, mine.heap, mine.ref,
                     get_dynamic_fe_omega(problem_type, l, a, b,
                                          mine.heap[mine.ref].data, n))
    /\ UNCHANGED <<problem_type, nums>>

Call_get_gauss_quadrature_index ==
    /\ Idle
    /\ \E x \in nums, a \in nums, b \in nums :
         Deliver("get_gauss_quadrature_index", [f |-> x, a |-> a, b |-> b],
                 heap, 0, get_gauss_quadrature_index(problem_type, x, a, b))
    /\ UNCHANGED <<problem_type, nums>>

Call_get_dof_index ==
    /\ Idle
    /\ \E e \in Elems :
         Deliver("get_dof_index", [e |-> e], heap, 0,
                 get_dof_index(problem_type, e))
    /\ UNCHANGED <<problem_type, nums>>

\* the caller builds the displacement pair de and passes a reference to it
Call_get_strain_e ==
    /\ Idle
    /\ \E l \in nums, d1 \in nums, d2 \in nums :
         LET mine == Alloc(heap, NdArray(<<2>>, <<d1, d2>>))
             args == [le |-> l, de |-> <<d1, d2>>]
         IN  Deliver("get_strain_e", args, mine.heap, mine.ref,
                     get_strain_e(problem_type, l, mine.heap[mine.ref].data))
    /\ UNCHANGED <<problem_type, nums>>

\* the caller uses the outcome and drops every reference
Discard ==
    /\ ~Idle
    /\ call' = NoCall
    /\ heap' = <<>>
    /\ UNCHANGED <<problem_type, nums>>

\* the caller keeps the returned array or list, and nothing else
Retain ==
    /\ ~Idle
    /\ call.kind = "return"
    /\ heap[call.ref].type \in {"ndarray", "list"}
    /\ call' = NoCall
    /\ heap' = <<heap[call.ref]>>
    /\ UNCHANGED <<problem_type, nums>>

\* between calls the caller overwrites the first entry of an object it kept
CallerWrites ==
    /\ Idle
    /\ \E r \in 1..Len(heap) :
         \E v \in IF heap[r].dtype = "int" THEN {[n |-> e] : e \in Elems}
                  ELSE {[n |-> x] : x \in nums} :
            /\ heap[r].data[1] # v.n
            /\ heap' = [heap EXCEPT ![r].data[1] = v.n]
    /\ UNCHANGED <<problem_type, call, nums>>

Calls ==
    \/ Call_get_Ke
    \/ Call_get_fe_omega
    \/ Call_get_dynamic_fe_omega
    \/ Call_get_gauss_quadrature_index
    \/ Call_get_dof_index
    \/ Call_get_strain_e

Init ==
    /\ problem_type \in Tags
    /\ heap = <<>>
    /\ call = NoCall
    /\ nums = Floats

Next == Calls \/ Discard

Spec == Init /\ [][Next]_vars

\* the caller keeps results and writes to them between calls
InitKeep ==
    /\ problem_type \in Tags
    /\ heap = <<>>
    /\ call = NoCall
    /\ nums = FewFloats

NextKeep == Calls \/ Discard \/ Retain \/ CallerWrites

SpecKeep == InitKeep /\ [][NextKeep]_vars

(***************************************************************************)
(* Vocabulary of the properties.                                           *)
(***************************************************************************)
Returned == ~Idle /\ call.kind = "return"
Raised(exc) == ~Idle /\ call.kind = "raise" /\ call.exc = exc
Result == heap[call.ref]
Called(op, tag) == ~Idle /\ call.op = op /\ problem_type = tag

\* the tags each dispatching method is documented to support
Supported(op) ==
    CASE op \in {"get_Ke", "get_fe_omega", "get_dof_index"} ->
            {"Elasticity", "EB_beam"}
      [] op = "get_dynamic_fe_omega" -> {"EB_beam"}
      [] op = "get_strain_e" -> {"Elasticity"}
      [] OTHER -> Tags

Dispatching ==
    {"get_Ke", "get_fe_omega", "get_dynamic_fe_omega", "get_dof_index",
     "get_strain_e"}

\* the call left nothing behind but the array the caller passed in
NoResult ==
    /\ call.ref = 0
    /\ Len(heap) = call.base + (IF call.argref > 0 THEN 1 ELSE 0)

\* x is computed without rounding
Exact(q) == Round(q) = q

C2_BeamDofTable ==
    Called("get_dof_index", "EB_beam") =>
        /\ Returned
        /\ Result.type = "ndarray" /\ Result.dtype = "int"
        /\ Result.shape = <<2, 16>>
        /\ Len(Result.data) = 32
        /\ \A ii \in 0..3, jj \in 0..3 :
              /\ Result.data[ii * 4 + jj + 1] = 2 * call.args.e + ii
              /\ Result.data[16 + ii * 4 + jj + 1] = 2 * call.args.e + jj

C2_Witness ==
    /\ Called("get_dof_index", "EB_beam")
    /\ Returned
    /\ call.args.e = 1
    /\ Result.data[5] = 3 /\ Result.data[16 + 4] = 5

(***************************************************************************)
(* C3: the beam stiffness matrix.                                          *)
(***************************************************************************)
\* the documented coefficient list, each entry the float nearest its value
C3_Coefficients(l) ==
    LET c(k, p) == Round(RMul(F(k), RPow(l, p)))
    IN  << c(12, 0), c(6, 1),  c(-12, 0), c(6, 1),
           c(6, 1),  c(4, 2),  c(-6, 1),  c(2, 2),
           c(-12, 0), c(-6, 1), c(12, 0), c(-6, 1),
           c(6, 1),  c(2, 2),  c(-6, 1),  c(4, 2) >>

\* C3: for EB_beam and non-zero l, get_Ke returns a flat 16-element
\* sequence, the row-major flattening of a (symmetric) 4x4 matrix, whose
\* entry k is (EI/l^3) times the k-th of [12, 6l, -12, 6l, 6l, 4l^2, -6l,
\* 2l^2, -12, -6l, 12, -6l, 6l, 2l^2, -6l, 4l^2].
C3_BeamStiffness ==
    (Called("get_Ke", "EB_beam") /\ call.args.le # Zero) =>
        /\ Returned
        /\ Result.shape = <<16>>
        /\ Len(Result.data) = 16
        /\ \A k \in 1..16 :
              Result.data[k] =
                  FMul(FDiv(call.args.EIe, Round(RPow(call.args.le, 3))),
                       C3_Coefficients(call.args.le)[k])
        /\ \A i \in 0..3, j \in 0..3 :
              Result.data[4 * i + j + 1] = Result.data[4 * j + i + 1]

C3_Witness ==
    /\ Called("get_Ke", "EB_beam")
    /\ Returned
    /\ call.args.le = F(2) /\ call.args.EIe = F(2)
    /\ Result.data[2] = F(3) /\ Result.data[6] = F(4) /\ Result.data[8] = F(2)

(***************************************************************************)
(* C4: scaling of the beam stiffness matrix.                               *)
(***************************************************************************)
\* the entries of get_Ke for EB_beam; defined for non-zero l
C4_Entries(EI, l) == get_Ke("EB_beam", None, None, l, EI).value.data

\* positions (from 1) of the entries 12 and -12, of the entries in l, and of
\* the entries in l^2
C4_Constant == {1, 3, 9, 11}
C4_Linear == {2, 4, 5, 7, 10, 12, 13, 15}
C4_Quadratic == {6, 8, 14, 16}

\* C4 as stated: for EB_beam and non-zero l, every entry of get_Ke(2*EI, l)
\* is twice, and every entry of get_Ke(EI, 2*l) is 1/8 of, the corresponding
\* entry of get_Ke(EI, l).
C4_AsStated ==
    (Called("get_Ke", "EB_beam") /\ Returned) =>
        LET EI == call.args.EIe
            l  == call.args.le
        IN  \A k \in 1..16 :
              /\ C4_Entries(RMul(F(2), EI), l)[k] = RMul(F(2), Result.data[k])
              /\ C4_Entries(EI, RMul(F(2), l))[k] = RMul(<<1, 8>>, Result.data[k])

\* C4 (amended): for EB_beam and non-zero l, barring overflow and
\* underflow, every entry of get_Ke(2*EI, l)
\* is twice the corresponding entry of get_Ke(EI, l); in get_Ke(EI, 2*l) the
\* entries 12 and -12 are 1/8, the entries in l are 1/4 and the entries in
\* l^2 are 1/2 of the corresponding entry of get_Ke(EI, l).
C4_Scaling ==
    (Called("get_Ke", "EB_beam") /\ Returned) =>
        LET EI == call.args.EIe
            l  == call.args.le
            twice == C4_Entries(RMul(F(2), EI), l)
            long  == C4_Entries(EI, RMul(F(2), l))
        IN  /\ \A k \in 1..16 : twice[k] = RMul(F(2), Result.data[k])
            /\ \A k \in C4_Constant : long[k] = RMul(<<1, 8>>, Result.data[k])
            /\ \A k \in C4_Linear : long[k] = RMul(<<1, 4>>, Result.data[k])
            /\ \A k \in C4_Quadratic : long[k] = RMul(<<1, 2>>, Result.data[k])

C4_Witness ==
    /\ Called("get_Ke", "EB_beam")
    /\ Returned
    /\ call.args.le = F(1) /\ call.args.EIe = F(1)
    /\ C4_Entries(F(1), F(2))[2] = <<3, 2>>
    /\ Result.data[2] = F(6)

(***************************************************************************)
(* C5: the errors a call can raise.                                        *)
(***************************************************************************)
\* C5 as stated: InvalidElementType is the only error any operation
\* raises; with a supported tag every numeric input, le = 0 included,
\* returns a value.
C5_AsStated ==
    ~Idle =>
        /\ call.kind = "raise" => call.exc = InvalidElementType
        /\ problem_type \in Supported(call.op) => call.kind = "return"

\* an operation that divides by le
C5_DividesByLe == {"get_Ke", "get_strain_e"}

\* C5 (amended): with a supported tag and Python float arguments at which
\* nothing overflows or underflows, a call fails in two cases only: le = 0 passed to get_Ke (either tag) or to
\* get_strain_e (Elasticity) raises ZeroDivisionError, and a node that is
\* no index of fe raises IndexError in get_dynamic_fe_omega; every other
\* numeric input returns a value.
C5_Errors ==
    (~Idle /\ problem_type \in Supported(call.op)) =>
        IF call.op \in C5_DividesByLe /\ call.args.le = Zero
        THEN Raised(ZeroDivisionError) /\ NoResult
        ELSE IF /\ call.op = "get_dynamic_fe_omega"
                /\ ~ValidIndex(call.args.fe, call.args.node)
        THEN Raised(IndexError) /\ NoResult
        ELSE call.kind = "return"

C5_Witness ==
    /\ Called("get_Ke", "EB_beam")
    /\ call.args.le = Zero
    /\ call.args.EIe = F(1)
    /\ Raised(ZeroDivisionError)

(***************************************************************************)
(* C6: the affine map of the reference interval.                           *)
(***************************************************************************)
\* 0.5*(a+b) + 0.5*(b-a)*x, every operation rounded
C6_Formula(x, a, b) ==
    Round(RAdd(Round(RMul(Half, Round(RAdd(a, b)))),
               Round(RMul(Round(RMul(Half, Round(RSub(b, a)))), x))))

\* C6 as stated: get_gauss_quadrature_index(x, a, b) returns
\* 0.5*(a+b) + 0.5*(b-a)*x and never fails, whatever problem_type; for all
\* a and b it maps x = -1 exactly to a and x = 1 exactly to b.
C6_AsStated ==
    (~Idle /\ call.op = "get_gauss_quadrature_index") =>
        /\ Returned
        /\ Result.data[1] = C6_Formula(call.args.f, call.args.a, call.args.b)
        /\ call.args.f = F(-1) => Result.data[1] = call.args.a
        /\ call.args.f = F(1) => Result.data[1] = call.args.b

\* C6 (amended): get_gauss_quadrature_index(x, a, b) returns the
\* floating-point value of 0.5*(a+b) + 0.5*(b-a)*x and never fails,
\* whatever problem_type; it maps x = -1 exactly to a and x = 1 exactly to b
\* whenever a+b and b-a are computed without rounding (and nothing
\* underflows).
C6_AffineMap ==
    (~Idle /\ call.op = "get_gauss_quadrature_index") =>
        LET x == call.args.f
            a == call.args.a
            b == call.args.b
        IN  /\ Returned
            /\ Result.data[1] = C6_Formula(x, a, b)
            /\ (Exact(RAdd(a, b)) /\ Exact(RSub(b, a))) =>
                  /\ x = F(-1) => Result.data[1] = a
                  /\ x = F(1) => Result.data[1] = b

C6_Witness ==
    /\ Called("get_gauss_quadrature_index", "Plate")
    /\ Returned
    /\ call.args.f = F(1) /\ call.args.a = <<-1, 2>> /\ call.args.b = F(3)
    /\ Exact(RAdd(call.args.a, call.args.b))
    /\ Exact(RSub(call.args.b, call.args.a))
    /\ Result.data[1] = F(3)

(***************************************************************************)
(* C7: purity.                                                             *)
(***************************************************************************)
\* what the method computes from the tag and the arguments alone
C7_Outcome(op, tag, a) ==
    CASE op = "get_Ke" -> get_Ke(tag, a.Ae, a.Ee, a.le, a.EIe)
      [] op = "get_fe_omega" -> get_fe_omega(tag, a.le, a.b1, a.b2, a.fe)
      [] op = "get_dynamic_fe_omega" ->
            get_dynamic_fe_omega(tag, a.le, a.b1, a.b2, a.fe, a.node)
      [] op = "get_gauss_quadrature_index" ->
            get_gauss_quadrature_index(tag, a.f, a.a, a.b)
      [] op = "get_dof_index" -> get_dof_index(tag, a.e)
      [] op = "get_strain_e" -> get_strain_e(tag, a.le, a.de)

\* the array argument as the caller built it
C7_Passed(c) == IF c.op = "get_strain_e" THEN c.args.de ELSE c.args.fe

\* C7: no step changes problem_type; a call, succeeding or failing, leaves
\* every object that existed before it as it was (results the caller kept
\* and has written to included) and leaves the array passed to it as the
\* caller built it; its result is a new object, distinct from all of them,
\* whose value is determined by the tag and the arguments alone.
C7_Pure ==
    [][ /\ problem_type' = problem_type
        /\ (Idle /\ ~Idle') =>
              /\ \A r \in 1..Len(heap) : heap'[r] = heap[r]
              /\ call'.argref > 0 =>
                    /\ call'.argref = Len(heap) + 1
                    /\ heap'[call'.argref].data = C7_Passed(call')
              /\ call'.kind = C7_Outcome(call'.op, problem_type, call'.args).kind
              /\ call'.kind = "return" =>
                    /\ call'.ref \notin 1..Len(heap)
                    /\ call'.ref # call'.argref
                    /\ call'.ref = Len(heap')
                    /\ heap'[call'.ref] =
                         C7_Outcome(call'.op, problem_type, call'.args).value
              /\ call'.kind = "raise" =>
                    /\ call'.exc =
                         C7_Outcome(call'.op, problem_type, call'.args).exc
                    /\ Len(heap') = Len(heap) + (IF call'.argref > 0 THEN 1 ELSE 0)
      ]_vars

\* a call that was passed an array returns while the caller holds an
\* earlier result it has overwritten
C7_Witness ==
    /\ Returned
    /\ call.base = 1
    /\ call.op = "get_dynamic_fe_omega"
    /\ call.argref = 2 /\ call.ref = 3
    /\ heap[1].shape = <<2, 16>>
    /\ heap[1].data[1] = 3 /\ heap[1].data[2] = 0
    /\ problem_type = "EB_beam"

(***************************************************************************)
(* C8: the bar DOF pair.                                                   *)
(***************************************************************************)
\* C8: for Elasticity and every element index e, get_dof_index(e) returns
\* exactly the pair [e, e+1], so the second DOF of element e is the first
\* DOF of element e+1.
C8_BarDofPair ==
    Called("get_dof_index", "Elasticity") =>
        /\ Returned
        /\ Result.type = "list"
        /\ Result.data = <<call.args.e, call.args.e + 1>>
        /\ Result.data[2] =
              get_dof_index(problem_type, call.args.e + 1).value.data[1]

C8_Witness ==
    /\ Called("get_dof_index", "Elasticity")
    /\ Returned
    /\ call.args.e = 3
    /\ Result.data = <<3, 4>>

(***************************************************************************)
(* C9: the bar load vector.                                                *)
(***************************************************************************)
\* C9: for Elasticity and every l, b1, b2, get_fe_omega returns the 2x1
\* column (l/6)*[[2,1],[1,2]]*[b1,b2]^T, which is
\* [[l*(2*b1+b2)/6],[l*(b1+2*b2)/6]] (rounded once) when l/6 and the two
\* sums are computed without rounding; l=6, b1=1, b2=2 gives [[4],[5]].
C9_BarLoad ==
    /\ get_fe_omega("Elasticity", F(6), F(1), F(2), None).value.data
          = <<F(4), F(5)>>
    /\ Called("get_fe_omega", "Elasticity") =>
        LET l  == call.args.le
            b1 == call.args.b1
            b2 == call.args.b2
            s1 == RAdd(RMul(F(2), b1), b2)
            s2 == RAdd(b1, RMul(F(2), b2))
        IN  /\ Returned
            /\ Result.shape = <<2, 1>>
            /\ Len(Result.data) = 2
            /\ Result.data[1] = FMul(FDiv(l, F(6)), Round(s1))
            /\ Result.data[2] = FMul(FDiv(l, F(6)), Round(s2))
            /\ (Exact(RDiv(l, F(6))) /\ Exact(s1)) =>
                  Result.data[1] = Round(RDiv(RMul(l, s1), F(6)))
            /\ (Exact(RDiv(l, F(6))) /\ Exact(s2)) =>
                  Result.data[2] = Round(RDiv(RMul(l, s2), F(6)))

C9_Witness ==
    /\ Called("get_fe_omega", "Elasticity")
    /\ Returned
    /\ call.args.le = F(3) /\ call.args.b1 = F(1) /\ call.args.b2 = F(2)
    /\ Result.data = <<F(2), <<5, 2>>>>

(***************************************************************************)
(* C10: the dynamic beam load vector.                                      *)
(***************************************************************************)
\* C10: for EB_beam, every l, every load sequence f and every valid index
\* node of f, get_dynamic_fe_omega(l, f, node) returns the 4-element result
\* of get_fe_omega(l, fe = f[node]), which is (f[node]*l/2)*[1, l/6, 1,
\* -l/6]; b1 and b2 have no effect on it.
C10_DynamicLoad ==
    (/\ Called("get_dynamic_fe_omega", "EB_beam")
     /\ ValidIndex(call.args.fe, call.args.node)) =>
        LET l == call.args.le
            f == PyIndex(call.args.fe, call.args.node)
            h == FDiv(FMul(f, l), F(2))
            sixth == FDiv(l, F(6))
        IN  /\ Returned
            /\ Return(Result) = get_fe_omega(problem_type, l, None, None, f)
            /\ Result.shape = <<4>>
            /\ Result.data = << FMul(h, F(1)), FMul(h, sixth),
                                FMul(h, F(1)), FMul(h, FNeg(sixth)) >>
            /\ \A b1 \in Ignored, b2 \in Ignored :
                  get_dynamic_fe_omega(problem_type, l, b1, b2,
                                       call.args.fe, call.args.node)
                      = Return(Result)

C10_Witness ==
    /\ Called("get_dynamic_fe_omega", "EB_beam")
    /\ Returned
    /\ call.args.fe = <<F(0), F(1)>> /\ call.args.node = 1
    /\ call.args.le = F(3) /\ call.args.b1 = F(1) /\ call.args.b2 = None
    /\ Result.data = << <<3, 2>>, <<3, 4>>, <<3, 2>>, <<-3, 4>> >>
====
